---- MODULE Spec2Model ----
(***************************************************************************)
(* Context acquisition and caching subsystem of git-ai:                    *)
(*   src/src/context/cache.rs   ContextCache (get / store / clear)         *)
(*   src/src/context/mod.rs     ContextManager (gather / refresh / clear)  *)
(*   src/src/context/providers  the four context providers                 *)
(* The repository (HEAD, committed and working-tree contents), the wall    *)
(* clock and the outcome of file writes are the environment.               *)
(***************************************************************************)
EXTENDS Integers, Sequences, FiniteSets, TLC

\* ---------------------------------------------------------------- bounds
MaxRecords == 3      \* records of one `git status` listing
MaxLines   == 5      \* lines of a plain-text configuration file
MaxContent == 3      \* successive contents of a file (0 = file absent)
MaxTicks   == 1      \* clock advances
MaxCalls   == 2      \* calls of the cache and manager API
MaxFiles   == 2      \* files of the walked working tree
MaxChars   == 4      \* characters of a sniffed content, before padding

\* ------------------------------------------------------------- constants
GitTtl     == 300    \* chrono::Duration::minutes(5), in seconds
ProjectTtl == 3600   \* chrono::Duration::hours(1)
AgentTtl   == 86400  \* chrono::Duration::hours(24)

ContextType == {"Git", "Project", "Agent", "Interaction"}
FileNames   == <<"a">>
FileSet     == {FileNames[i] : i \in 1..Len(FileNames)}
TimeSteps   == {GitTtl + 1}

\* the types that get, refresh_context and clear_cache are called on: the
\* type every command requires and the type that gather never caches
Direct      == {"Git", "Interaction"}

\* the calls of gather_context_with_command / gather_context that are made:
\* the list of the pr command, and a list without a command that needs no
\* repository and names a type twice
Requests ==
    { [types |-> <<"Git", "Agent", "Interaction">>, command |-> <<"pr">>],
      [types |-> <<"Project", "Interaction", "Project">>, command |-> <<>>] }

\* Option<T>: None is the empty sequence, Some(x) the one-element sequence
None    == <<>>
Some(x) == <<x>>

\* the content of a cache file
NoFile     == [kind |-> "none"]
Partial    == [kind |-> "partial"]      \* the head of a write: not a CacheEntry

NoResult == [op |-> "none", status |-> "none"]

\* the paths handed to the FileHashTracker (content 0 = the file is absent),
\* and file_hashes.json: absent (read as the default map), or not parsable
HashPaths == {"x", "y"}
EmptyMap  == [p \in {} |-> 0]
NoHashes  == [hashes |-> EmptyMap, last_updated |-> 0]
Corrupt   == [kind |-> "corrupt"]

\* result is the outcome of the latest API call, calls counts the API calls
VARIABLES vcs, head, committed, work, now, ticks, cache, result, calls,
          disk, hash_file, pending

vars == <<vcs, head, committed, work, now, ticks, cache, result, calls,
          disk, hash_file, pending>>
envVars   == <<vcs, head, committed, work>>
clockVars == <<now, ticks>>
hashVars  == <<disk, hash_file>>

\* ------------------------------------------------------------ repository
\* one record of `git status --porcelain=v1` for file f, or no record
StatusRecord(cm, wk, f) ==
    IF cm[f] = 0 /\ wk[f] = 0 THEN <<>>
    ELSE IF cm[f] = 0 THEN << <<"?", "?", f>> >>
    ELSE IF wk[f] = 0 THEN << <<" ", "D", f>> >>
    ELSE IF wk[f] # cm[f] THEN << <<" ", "M", f>> >>
    ELSE <<>>

RECURSIVE StatusFrom(_, _, _)
StatusFrom(cm, wk, i) ==
    IF i > Len(FileNames) THEN <<>>
    ELSE StatusRecord(cm, wk, FileNames[i]) \o StatusFrom(cm, wk, i + 1)

\* the text printed by `git status --porcelain=v1`
StatusOutput(cm, wk) == StatusFrom(cm, wk, 1)

\* md5::compute, taken to be collision free on the status texts of the model
Md5(text) == <<"md5", text>>

\* ------------------------------------------------------------ cache store
GetGitHashes_HashOfNothing(v, h, cm, wk) ==
    [commit |-> IF v /\ h > 0 THEN Some(h) ELSE None,
     tree   |-> Some(Md5(IF v THEN StatusOutput(cm, wk) ELSE <<>>))]

GetGitHashes(v, h, cm, wk) ==
    [commit |-> IF v /\ h > 0 THEN Some(h) ELSE None,
     tree   |-> IF v THEN Some(Md5(StatusOutput(cm, wk))) ELSE None]

GetExpiryTime_OneTtl(ct, t) ==
    IF ct = "Interaction" THEN None ELSE Some(t + GitTtl)

GetExpiryTime(ct, t) ==
    CASE ct = "Git"         -> Some(t + GitTtl)
      [] ct = "Project"     -> Some(t + ProjectTtl)
      [] ct = "Agent"       -> Some(t + AgentTtl)
      [] ct = "Interaction" -> None

IsCacheValid_NoExpiry(entry, live, t) ==
    IF entry.git_commit_hash # live.commit THEN FALSE
    ELSE IF entry.working_tree_hash # live.tree THEN FALSE
    ELSE TRUE

IsCacheValid_NoTree(entry, live, t) ==
    IF entry.expires_at # None /\ t > entry.expires_at[1] THEN FALSE
    ELSE entry.git_commit_hash = live.commit

IsCacheValid_NoCommit(entry, live, t) ==
    IF entry.expires_at # None /\ t > entry.expires_at[1] THEN FALSE
    ELSE entry.working_tree_hash = live.tree

IsCacheValid_ExpiredAtInstant(entry, live, t) ==
    IF entry.expires_at # None /\ t >= entry.expires_at[1] THEN FALSE
    ELSE IF entry.git_commit_hash # live.commit THEN FALSE
    ELSE IF entry.working_tree_hash # live.tree THEN FALSE
    ELSE TRUE

IsCacheValid(entry, live, t) ==
    IF entry.expires_at # None /\ t > entry.expires_at[1] THEN FALSE
    ELSE IF entry.git_commit_hash # live.commit THEN FALSE
    ELSE IF entry.working_tree_hash # live.tree THEN FALSE
    ELSE TRUE

CacheGet_SlidingExpiry(file, live, t) ==
    IF file.kind = "none" THEN [res |-> "absent", data |-> None, post |-> file]
    ELSE IF file.kind = "partial" THEN [res |-> "err", data |-> None, post |-> file]
    ELSE IF IsCacheValid(file, live, t)
         THEN [res |-> "hit", data |-> Some(file.data),
               post |-> IF file.expires_at = None THEN file
                        ELSE [file EXCEPT
                                !.expires_at = Some(t + file.expires_at[1] - file.created_at),
                                !.created_at = t]]
         ELSE [res |-> "absent", data |-> None, post |-> NoFile]

\* ContextCache::get on the file `file`: the outcome, the data and the file left behind
CacheGet(file, live, t) ==
    IF file.kind = "none" THEN [res |-> "absent", data |-> None, post |-> file]
    ELSE IF file.kind = "partial" THEN [res |-> "err", data |-> None, post |-> file]
    ELSE IF IsCacheValid(file, live, t)
         THEN [res |-> "hit", data |-> Some(file.data), post |-> file]
         ELSE [res |-> "absent", data |-> None, post |-> NoFile]

\* history: what a get at time t under the live pair finds in `file`
GetCase(file, live, t) ==
    IF file.kind # "entry" THEN file.kind
    ELSE IF file.expires_at # None /\ t > file.expires_at[1] THEN "expired"
    ELSE IF file.git_commit_hash # live.commit THEN "commit_moved"
    ELSE IF file.working_tree_hash # live.tree THEN "tree_changed"
    ELSE "valid"

\* the CacheEntry that ContextCache::store builds
MakeEntry_StaleKey(ct, data, live, t) ==
    [kind |-> "entry", data |-> data,
     git_commit_hash |-> None, working_tree_hash |-> None,
     created_at |-> t, expires_at |-> GetExpiryTime(ct, t)]

MakeEntry(ct, data, live, t) ==
    [kind |-> "entry", data |-> data,
     git_commit_hash |-> live.commit, working_tree_hash |-> live.tree,
     created_at |-> t, expires_at |-> GetExpiryTime(ct, t)]

\* -------------------------------------------------------------- providers
InteractionGather_Unknown(cmd, t) ==
    [variant |-> "Interaction", command |-> "unknown", timestamp |-> t]

InteractionGather(cmd, t) ==
    [variant |-> "Interaction",
     command |-> IF cmd # None THEN cmd[1] ELSE "unknown",
     timestamp |-> t]

\* whether the provider of ct succeeds: the Git provider needs a repository
\* with a commit (git status, git log), the Agent provider the current directory
ProviderOk(ct, v, h, cwdOk) ==
    CASE ct = "Git"     -> v /\ h > 0
      [] ct = "Project" -> TRUE
      [] ct = "Agent"   -> cwdOk
      [] OTHER          -> TRUE

ProviderData_GitVariant(ct, h, cm, wk) ==
    [variant |-> "Git",
     commit  |-> IF ct = "Git" THEN Some(h) ELSE None,
     view    |-> IF ct = "Git" THEN <<cm, wk>> ELSE <<wk>>]

ProviderData(ct, h, cm, wk) ==
    [variant |-> ct,
     commit  |-> IF ct = "Git" THEN Some(h) ELSE None,
     view    |-> IF ct = "Git" THEN <<cm, wk>> ELSE <<wk>>]

\* ----------------------------------------------------------- environment
Live == GetGitHashes(vcs, head, committed, work)

\* what goes wrong during a call: nothing, the first write of a cache file
\* fails or is interrupted (leaving a partial file), or the current
\* directory is gone
FaultKinds == {"none", "store_fail", "killed_partial", "no_cwd"}

\* ContextCache::store: the outcome and the file left behind
CacheStore(ct, data, file, live, t, fk) ==
    CASE fk = "store_fail"        -> [status |-> "err", post |-> file]
      [] fk = "killed_partial"    -> [status |-> "killed", post |-> Partial]
      [] OTHER -> [status |-> "ok", post |-> MakeEntry(ct, data, live, t)]

\* ----------------------------------------------------------- orchestrator
\* the provider call and the store that follow a miss (or make up a refresh)
FetchAndStore(ct, file, fk, cmd) ==
    IF ~ProviderOk(ct, vcs, head, fk # "no_cwd")
    THEN [status |-> "err", data |-> None, post |-> file, invoked |-> 1,
          ops |-> {<<"provide", ct>>, <<"provider_failed", ct>>}]
    ELSE LET data == IF ct = "Interaction" THEN InteractionGather(cmd, now)
                     ELSE ProviderData(ct, head, committed, work)
             s    == CacheStore(ct, data, file, Live, now, fk)
         IN  [status |-> s.status,
              data |-> IF s.status = "ok" THEN Some(data) ELSE None,
              post |-> s.post, invoked |-> 1,
              ops |-> {<<"provide", ct>>, <<"store", ct>>}
                        \cup (IF s.status = "err" THEN {<<"store_failed", ct>>}
                              ELSE IF s.status = "killed"
                                   THEN {<<"store_interrupted", ct>>}
                              ELSE {})]

\* ContextManager::get_or_fetch_context on the cache file `file` of ct
GetOrFetchContext(ct, file, fk) ==
    LET g == CacheGet(file, Live, now)
    IN  IF g.res = "err"
        THEN [status |-> "err", data |-> None, post |-> g.post, invoked |-> 0,
              ops |-> {<<"get", ct>>, <<GetCase(file, Live, now), ct>>}]
        ELSE IF g.res = "hit"
        THEN [status |-> "ok", data |-> g.data, post |-> g.post, invoked |-> 0,
              ops |-> {<<"get", ct>>, <<"hit", ct>>}]
        ELSE LET r == FetchAndStore(ct, g.post, fk, None)
             IN  [r EXCEPT !.ops = @ \cup {<<"get", ct>>, <<"miss", ct>>,
                                           <<GetCase(file, Live, now), ct>>}]

RECURSIVE GatherLoop_KeepGoing(_, _, _, _, _)
GatherLoop_KeepGoing(types, i, st, cmd, fk) ==
    IF i > Len(types)
    THEN (IF st.status = "running" THEN [st EXCEPT !.status = "ok"] ELSE st)
    ELSE LET ct == types[i]
         IN  IF ct = "Interaction"
             THEN GatherLoop_KeepGoing(types, i + 1,
                     [st EXCEPT !.contexts[ct] = Some(InteractionGather(cmd, now)),
                                !.invoked[ct] = @ + 1,
                                !.ops = @ \cup {<<"provide", ct>>}],
                     cmd, fk)
             ELSE LET r  == GetOrFetchContext(ct, st.cache[ct], fk)
                      s1 == [st EXCEPT !.cache[ct] = r.post,
                                       !.invoked[ct] = @ + r.invoked,
                                       !.ops = @ \cup r.ops]
                  IN  IF r.status = "ok"
                      THEN GatherLoop_KeepGoing(types, i + 1,
                              [s1 EXCEPT !.contexts[ct] = r.data], cmd, fk)
                      ELSE GatherLoop_KeepGoing(types, i + 1,
                              [s1 EXCEPT !.status = r.status], cmd, fk)

\* the loop of gather_context_with_command from position i of the request
\* list on; st holds the cache files, the contexts map and the call's history
RECURSIVE GatherLoop(_, _, _, _, _)
GatherLoop(types, i, st, cmd, fk) ==
    IF i > Len(types) THEN [st EXCEPT !.status = "ok"]
    ELSE LET ct == types[i]
         IN  IF ct = "Interaction"
             THEN GatherLoop(types, i + 1,
                     [st EXCEPT !.contexts[ct] = Some(InteractionGather(cmd, now)),
                                !.invoked[ct] = @ + 1,
                                !.ops = @ \cup {<<"provide", ct>>}],
                     cmd, fk)
             ELSE LET r  == GetOrFetchContext(ct, st.cache[ct], fk)
                      s1 == [st EXCEPT !.cache[ct] = r.post,
                                       !.invoked[ct] = @ + r.invoked,
                                       !.ops = @ \cup r.ops]
                  IN  IF r.status = "ok"
                      THEN GatherLoop(types, i + 1,
                              [s1 EXCEPT !.contexts[ct] = r.data], cmd, fk)
                      ELSE [s1 EXCEPT !.status = r.status]

\* the types of a request list
TypesOf(types) == {types[i] : i \in 1..Len(types)}

\* history: the entry in `file` has an expiry time and it has passed at time t
Expired(file, t) ==
    file.kind = "entry" /\ file.expires_at # None /\ t > file.expires_at[1]

\* history: the cacheable types of the list `types` that the latest call, a
\* successful gather, also held, while HEAD and the status output are as they
\* were at that call and the entry has not expired
RepeatSet(last, types) ==
    IF /\ last.op = "gather" /\ last.status = "ok"
       /\ last.bundle[1].git_hash = Live.commit
       /\ last.bundle[1].working_tree_hash = Live.tree
    THEN {ct \in (TypesOf(last.types) \cap TypesOf(types)) \ {"Interaction"} :
            ~Expired(cache[ct], now)}
    ELSE {}

Init ==
    /\ vcs \in BOOLEAN
    /\ head = 0
    /\ committed = [f \in FileSet |-> 0]
    /\ work = [f \in FileSet |-> 0]
    /\ now = 0
    /\ ticks = 0
    /\ cache = [ct \in ContextType |-> NoFile]
    /\ result = NoResult
    /\ calls = 0
    /\ disk = [p \in HashPaths |-> 0]
    /\ hash_file = NoHashes
    /\ pending = None

\* ---- environment: the user creates file f or gives it a content it never had
Edit(f) ==
    /\ calls < MaxCalls
    /\ work[f] < MaxContent
    /\ work' = [work EXCEPT ![f] = @ + 1]
    /\ UNCHANGED <<hashVars, pending, vcs, head, committed, clockVars, cache, result, calls>>

\* ---- environment: git add -A; git commit
Commit ==
    /\ calls < MaxCalls
    /\ vcs
    /\ StatusOutput(committed, work) # <<>>
    /\ committed' = work
    /\ head' = head + 1
    /\ UNCHANGED <<hashVars, pending, vcs, work, clockVars, cache, result, calls>>

\* ---- environment: time passes
Tick(d) ==
    /\ calls < MaxCalls
    /\ ticks < MaxTicks
    /\ now' = now + d
    /\ ticks' = ticks + 1
    /\ UNCHANGED <<hashVars, pending, envVars, cache, result, calls>>

\* ---- ContextCache::get called on its own
Get(ct) ==
    /\ calls < MaxCalls
    /\ LET g == CacheGet(cache[ct], Live, now)
       IN  /\ cache' = [cache EXCEPT ![ct] = g.post]
           /\ result' = [op |-> "get", status |-> IF g.res = "err" THEN "err" ELSE "ok",
                         type |-> ct, res |-> g.res, data |-> g.data,
                         found |-> GetCase(cache[ct], Live, now)]
    /\ calls' = calls + 1
    /\ UNCHANGED <<hashVars, pending, envVars, clockVars>>

\* ---- ContextManager::gather_context_with_command (gather_context passes no command)
Gather(req, fk) ==
    /\ calls < MaxCalls
    /\ LET st0 == [cache |-> cache,
                   contexts |-> [ct \in ContextType |-> None],
                   invoked |-> [ct \in ContextType |-> 0],
                   ops |-> {}, status |-> "running"]
           fin == GatherLoop(req.types, 1, st0, req.command, fk)
       IN  /\ cache' = fin.cache
           /\ result' = [op |-> "gather", status |-> fin.status,
                         types |-> req.types, command |-> req.command,
                         bundle |-> IF fin.status = "ok"
                                    THEN Some([contexts |-> fin.contexts,
                                               generated_at |-> now,
                                               git_hash |-> Live.commit,
                                               working_tree_hash |-> Live.tree])
                                    ELSE None,
                         invoked |-> fin.invoked, ops |-> fin.ops,
                         repeat |-> RepeatSet(result, req.types)]
    /\ calls' = calls + 1
    /\ UNCHANGED <<hashVars, pending, envVars, clockVars>>

\* ---- ContextManager::refresh_context
RefreshContext(ct) ==
    /\ calls < MaxCalls
    /\ LET r == FetchAndStore(ct, cache[ct], "none", None)
       IN  /\ cache' = [cache EXCEPT ![ct] = r.post]
           /\ result' = [op |-> "refresh", status |-> r.status, type |-> ct,
                         data |-> r.data, ops |-> r.ops]
    /\ calls' = calls + 1
    /\ UNCHANGED <<hashVars, pending, envVars, clockVars>>

\* ---- ContextManager::clear_cache (clear_type or clear_all)
ClearCache(target) ==
    /\ calls < MaxCalls
    /\ cache' = IF target = None THEN [ct \in ContextType |-> NoFile]
                ELSE [cache EXCEPT ![target[1]] = NoFile]
    /\ result' = [op |-> "clear", status |-> "ok", target |-> target]
    /\ calls' = calls + 1
    /\ UNCHANGED <<hashVars, pending, envVars, clockVars>>

Next ==
    \/ \E f \in FileSet : Edit(f)
    \/ Commit
    \/ \E d \in TimeSteps : Tick(d)
    \/ \E ct \in Direct : Get(ct)
    \/ \E req \in Requests, fk \in FaultKinds : Gather(req, fk)
    \/ \E ct \in Direct : RefreshContext(ct)
    \/ \E target \in {None} \cup {Some(ct) : ct \in Direct} : ClearCache(target)

Spec == Init /\ [][Next]_vars

\* ------------------------------------------- the cache store on its own
\* the clock readings around the expiry of a Git and of an Agent entry
BoundarySteps == {GitTtl - 1, GitTtl, GitTtl + 1, AgentTtl - 1, AgentTtl, AgentTtl + 1}

\* the types the cache store is called on directly
Stored == {"Git", "Agent"}

\* ---- ContextCache::store called on its own, with the data of the type
Store(ct) ==
    /\ calls < MaxCalls
    /\ LET s == CacheStore(ct, ProviderData(ct, head, committed, work),
                           cache[ct], Live, now, "none")
       IN  /\ cache' = [cache EXCEPT ![ct] = s.post]
           /\ result' = [op |-> "store", status |-> s.status, type |-> ct]
    /\ calls' = calls + 1
    /\ UNCHANGED <<hashVars, pending, envVars, clockVars>>

NextCache ==
    \/ \E f \in FileSet : Edit(f)
    \/ \E d \in BoundarySteps : Tick(d)
    \/ \E ct \in Stored : Store(ct)
    \/ \E ct \in Stored : Get(ct)

SpecCache == Init /\ [][NextCache]_vars

\* ------------------------------------------- the Git provider's status
\* paths are sequences of characters
NewPath  == <<"s", "r", "c">>
OldPaths == {<<"o", "l", "d">>, <<"U", "s", "r">>, <<"a", "b">>}

\* the records `git status` reports: the index and the worktree code, the
\* path and, for a rename or a copy in the index, the path the file had
StatusRecords ==
    {[x |-> p[1], y |-> p[2], path |-> NewPath, orig |-> None] :
        p \in {<<"M", " ">>, <<" ", "M">>, <<"A", " ">>, <<"?", "?">>,
               <<"U", "U">>, <<"A", "A">>, <<"D", "D">>, <<" ", "D">>}}
    \cup {[x |-> "R", y |-> " ", path |-> NewPath, orig |-> Some(o)] : o \in OldPaths}
    \cup {[x |-> "C", y |-> " ", path |-> NewPath, orig |-> Some(<<"l", "i", "b">>)]}

Listings == UNION {[1..n -> StatusRecords] : n \in 0..MaxRecords}

\* the output of `git status --porcelain=v1 -z` split at the NUL characters:
\* "XY path", and for a rename "XY path" followed by the path it had
RECURSIVE ZOutput(_, _)
ZOutput(listing, i) ==
    IF i > Len(listing) THEN <<>>
    ELSE LET r == listing[i]
         IN  << <<r.x, r.y, " ">> \o r.path >>
               \o (IF r.orig # None THEN <<r.orig[1]>> ELSE <<>>)
               \o ZOutput(listing, i + 1)

EmptyStatus ==
    [staged_files |-> <<>>, unstaged_files |-> <<>>, untracked_files |-> <<>>,
     has_conflicts |-> FALSE]

\* the loop of get_repository_status over the lines from position i on
\* (insertions and deletions of a FileStatus come from git diff --numstat
\* and are left out)
RECURSIVE ParseStatus(_, _, _)
ParseStatus(lines, i, acc) ==
    IF i > Len(lines) THEN acc
    ELSE LET line == lines[i]
         IN  IF Len(line) < 3 THEN ParseStatus(lines, i + 1, acc)
             ELSE LET staged_status   == line[1]
                      unstaged_status == line[2]
                      file_path       == SubSeq(line, 4, Len(line))
                      a1 == IF \/ staged_status = "U"
                               \/ unstaged_status = "U"
                               \/ (staged_status = "A" /\ unstaged_status = "A")
                               \/ (staged_status = "D" /\ unstaged_status = "D")
                            THEN [acc EXCEPT !.has_conflicts = TRUE] ELSE acc
                      a2 == IF staged_status # " " /\ staged_status # "?"
                            THEN [a1 EXCEPT !.staged_files =
                                     Append(@, [path |-> file_path, status |-> staged_status])]
                            ELSE a1
                      a3 == IF unstaged_status = " " THEN a2
                            ELSE IF unstaged_status = "?"
                            THEN [a2 EXCEPT !.untracked_files = Append(@, file_path)]
                            ELSE [a2 EXCEPT !.unstaged_files =
                                     Append(@, [path |-> file_path, status |-> unstaged_status])]
                  IN  ParseStatus(lines, i + 1, a3)

\* GitContextProvider::get_repository_status on the output of git status
RepositoryStatus(lines) ==
    LET acc == ParseStatus(lines, 1, EmptyStatus)
    IN  [staged_files |-> acc.staged_files,
         unstaged_files |-> acc.unstaged_files,
         untracked_files |-> acc.untracked_files,
         is_clean |-> /\ acc.staged_files = <<>>
                      /\ acc.unstaged_files = <<>>
                      /\ acc.untracked_files = <<>>,
         has_conflicts |-> acc.has_conflicts]

\* ---- get_repository_status in a repository whose status is `listing`
GetRepositoryStatus(listing) ==
    /\ vcs
    /\ result = NoResult
    /\ result' = [op |-> "status", status |-> "ok", listing |-> listing,
                  out |-> RepositoryStatus(ZOutput(listing, 1))]
    /\ UNCHANGED <<hashVars, pending, envVars, clockVars, cache, calls>>

\* one application per behaviour: the function keeps no state
NextStatus ==
    /\ result = NoResult
    /\ \E listing \in Listings : GetRepositoryStatus(listing)

SpecStatus == Init /\ [][NextStatus]_vars

\* -------------------------------------------- the Git provider's diffs
\* the repository as the diff commands see it: the upstream of the current
\* branch, the local branches among main and master, and the revision
\* arguments for which `git diff` fails
Upstream  == "origin/dev"
DiffArgs  == {"--cached", "", "origin/dev..HEAD", "main..HEAD", "master..HEAD"}
DiffEnvs  ==
    [upstream : {None, Some(Upstream)},
     branches : SUBSET {"main", "master"},
     failing  : SUBSET DiffArgs]

Range(b) == IF b = "main" THEN "main..HEAD"
            ELSE IF b = "master" THEN "master..HEAD"
            ELSE "origin/dev..HEAD"

\* GitContextProvider::get_diff: None for Err, Some(text) for Ok
GetDiff(args, env) ==
    IF args \in env.failing THEN None ELSE Some(<<"diff", args>>)

\* the fallback loop of get_branch_diff over the branch names from position i
RECURSIVE BranchLoop(_, _, _)
BranchLoop(names, i, env) ==
    IF i > Len(names) THEN None
    ELSE IF names[i] \in env.branches /\ GetDiff(Range(names[i]), env) # None
         THEN GetDiff(Range(names[i]), env)
         ELSE BranchLoop(names, i + 1, env)

GetBranchDiff_MasterFirst(env) ==
    IF env.upstream # None THEN GetDiff(Range(env.upstream[1]), env)
    ELSE BranchLoop(<<"master", "main">>, 1, env)

GetBranchDiff(env) ==
    IF env.upstream # None THEN GetDiff(Range(env.upstream[1]), env)
    ELSE BranchLoop(<<"main", "master">>, 1, env)

\* GitContextProvider::get_diffs: each Err becomes an unset field
GetDiffsOf(env) ==
    [status |-> "ok",
     staged |-> GetDiff("--cached", env),
     unstaged |-> GetDiff("", env),
     branch_diff |-> GetBranchDiff(env)]

\* ---- get_diffs in a repository that the diff commands see as env
GetDiffs(env) ==
    /\ vcs
    /\ result = NoResult
    /\ result' = [op |-> "diffs", status |-> GetDiffsOf(env).status,
                  env |-> env, out |-> GetDiffsOf(env)]
    /\ UNCHANGED <<hashVars, pending, envVars, clockVars, cache, calls>>

NextDiffs ==
    /\ result = NoResult
    /\ \E env \in DiffEnvs : GetDiffs(env)

SpecDiffs == Init /\ [][NextDiffs]_vars

\* --------------------------------------------- the Agent provider's scan
\* texts are sequences of characters
Whitespace == {" ", "\n"}

RECURSIVE TrimStart(_)
TrimStart(s) ==
    IF s = <<>> THEN s
    ELSE IF Head(s) \in Whitespace THEN TrimStart(Tail(s)) ELSE s

RECURSIVE TrimEnd(_)
TrimEnd(s) ==
    IF s = <<>> THEN s
    ELSE IF s[Len(s)] \in Whitespace THEN TrimEnd(SubSeq(s, 1, Len(s) - 1)) ELSE s

\* str::trim
Trim(s) == TrimEnd(TrimStart(s))

\* str::trim_matches(c)
RECURSIVE TrimMatches(_, _)
TrimMatches(s, c) ==
    IF s = <<>> THEN s
    ELSE IF Head(s) = c THEN TrimMatches(Tail(s), c)
    ELSE IF s[Len(s)] = c THEN TrimMatches(SubSeq(s, 1, Len(s) - 1), c)
    ELSE s

\* str::contains(c) and str::starts_with(p)
Contains(s, c) == \E i \in 1..Len(s) : s[i] = c
StartsWith(s, p) == Len(s) >= Len(p) /\ SubSeq(s, 1, Len(p)) = p

\* the content of a file whose lines are `lines`, from line i on
RECURSIVE Join(_, _)
Join(lines, i) ==
    IF i > Len(lines) THEN <<>>
    ELSE lines[i] \o (IF i < Len(lines) THEN <<"\n">> ELSE <<>>) \o Join(lines, i + 1)

\* the second piece of str::split('='), when there is one
RECURSIVE UntilEq(_)
UntilEq(s) ==
    IF s = <<>> \/ Head(s) = "=" THEN <<>> ELSE <<Head(s)>> \o UntilEq(Tail(s))

RECURSIVE SecondPiece(_)
SecondPiece(s) ==
    IF s = <<>> THEN None
    ELSE IF Head(s) = "=" THEN Some(UntilEq(Tail(s)))
    ELSE SecondPiece(Tail(s))

\* AgentContextProvider::detect_config_format: the extension first, then
\* the content
DetectConfigFormat_LinesOnly(ext, content) ==
    IF ext = Some("json") THEN "Json"
    ELSE IF ext = Some("yaml") \/ ext = Some("yml") THEN "Yaml"
    ELSE IF ext = Some("toml") THEN "Toml"
    ELSE LET trimmed == Trim(content)
         IN  IF /\ trimmed # <<>>
                /\ trimmed[1] = "{" /\ trimmed[Len(trimmed)] = "}"
             THEN "Json"
             ELSE IF Contains(trimmed, ":") /\ Contains(trimmed, "\n")
             THEN "Yaml"
             ELSE IF /\ Contains(trimmed, "[") /\ Contains(trimmed, "]")
                     /\ Contains(trimmed, "=")
             THEN "Toml"
             ELSE "Text"

DetectConfigFormat(ext, content) ==
    IF ext = Some("json") THEN "Json"
    ELSE IF ext = Some("yaml") \/ ext = Some("yml") THEN "Yaml"
    ELSE IF ext = Some("toml") THEN "Toml"
    ELSE LET trimmed == Trim(content)
         IN  IF /\ trimmed # <<>>
                /\ trimmed[1] = "{" /\ trimmed[Len(trimmed)] = "}"
             THEN "Json"
             ELSE IF /\ Contains(trimmed, ":")
                     /\ (Contains(trimmed, "\n") \/ Len(trimmed) > 100)
             THEN "Yaml"
             ELSE IF /\ Contains(trimmed, "[") /\ Contains(trimmed, "]")
                     /\ Contains(trimmed, "=")
             THEN "Toml"
             ELSE "Text"

\* the Text arm of extract_rules over the lines from position i on
RECURSIVE TextRules_KeepComments(_, _)
TextRules_KeepComments(lines, i) ==
    IF i > Len(lines) THEN <<>>
    ELSE LET trimmed == Trim(lines[i])
         IN  (IF trimmed # <<>> THEN <<trimmed>> ELSE <<>>)
               \o TextRules_KeepComments(lines, i + 1)

RECURSIVE TextRules(_, _)
TextRules(lines, i) ==
    IF i > Len(lines) THEN <<>>
    ELSE LET trimmed == Trim(lines[i])
         IN  (IF trimmed # <<>> /\ ~StartsWith(trimmed, <<"#">>)
              THEN <<trimmed>> ELSE <<>>)
               \o TextRules(lines, i + 1)

\* the Toml arm of extract_rules over the lines from position i on
RECURSIVE TomlRules(_, _)
TomlRules(lines, i) ==
    IF i > Len(lines) THEN <<>>
    ELSE LET trimmed == Trim(lines[i])
             piece   == SecondPiece(trimmed)
             cleaned == IF piece = None THEN <<>>
                        ELSE TrimMatches(TrimMatches(Trim(piece[1]), "\""), "'")
         IN  (IF /\ StartsWith(trimmed, <<"r", "u", "l", "e">>)
                 /\ Contains(trimmed, "=")
                 /\ cleaned # <<>>
              THEN <<cleaned>> ELSE <<>>)
               \o TomlRules(lines, i + 1)

\* serde_json::Value and serde_yaml::Value: strings, arrays, objects, null
Str(s)      == [k |-> "str", s |-> s]
Arr(items)  == [k |-> "arr", items |-> items]
Obj(fields) == [k |-> "obj", fields |-> fields]
Null        == [k |-> "null"]

RuleKeys == <<"rules", "instructions", "prompts", "guidelines", "constraints">>

\* extract_rules_from_json and extract_rules_from_yaml (the same walk)
RECURSIVE ValueRules(_), ObjRules(_, _), ArrRules(_, _)
ValueRules(value) ==
    CASE value.k = "obj" -> ObjRules(value.fields, 1)
      [] value.k = "arr" -> ArrRules(value.items, 1)
      [] value.k = "str" -> <<value.s>>
      [] OTHER           -> <<>>

ObjRules(fields, i) ==
    IF i > Len(RuleKeys) THEN <<>>
    ELSE (IF RuleKeys[i] \in DOMAIN fields
          THEN ValueRules(fields[RuleKeys[i]]) ELSE <<>>)
           \o ObjRules(fields, i + 1)

ArrRules(items, i) ==
    IF i > Len(items) THEN <<>>
    ELSE ValueRules(items[i]) \o ArrRules(items, i + 1)

\* key.contains("prompt") || key.contains("template"), on the keys of the model
IsPromptKey(key) == key \in {"prompts", "system_prompt", "commit_template", "template"}

\* extract_prompts_from_json and extract_prompts_from_yaml: pairs <<key, text>>
ValuePrompts(value) ==
    IF value.k # "obj" THEN {}
    ELSE {<<key, value.fields[key].s>> :
            key \in {q \in DOMAIN value.fields :
                        IsPromptKey(q) /\ value.fields[q].k = "str"}}

\* the value the parser of the file's format returns, None when it fails
Parsed(file) ==
    CASE file.format = "Json" -> file.json
      [] file.format = "Yaml" -> file.yaml
      [] OTHER                -> None

\* AgentContextProvider::extract_rules over the files from position i on
RECURSIVE ExtractRules_Abort(_, _)
ExtractRules_Abort(files, i) ==
    IF i > Len(files) THEN <<>>
    ELSE IF files[i].format \in {"Json", "Yaml"} /\ Parsed(files[i]) = None
         THEN <<>>
    ELSE (CASE files[i].format \in {"Json", "Yaml"} -> ValueRules(Parsed(files[i])[1])
            [] files[i].format = "Text" -> TextRules(files[i].lines, 1)
            [] files[i].format = "Toml" -> TomlRules(files[i].lines, 1))
           \o ExtractRules_Abort(files, i + 1)

RECURSIVE ExtractRules(_, _)
ExtractRules(files, i) ==
    IF i > Len(files) THEN <<>>
    ELSE (CASE files[i].format \in {"Json", "Yaml"} ->
                 IF Parsed(files[i]) # None
                 THEN ValueRules(Parsed(files[i])[1]) ELSE <<>>
            [] files[i].format = "Text" -> TextRules(files[i].lines, 1)
            [] files[i].format = "Toml" -> TomlRules(files[i].lines, 1))
           \o ExtractRules(files, i + 1)

\* AgentContextProvider::extract_custom_prompts: a later file's prompt
\* replaces an earlier one of the same key
RECURSIVE ExtractCustomPrompts(_, _, _)
ExtractCustomPrompts(files, i, prompts) ==
    IF i > Len(files) THEN prompts
    ELSE LET new  == IF Parsed(files[i]) # None
                     THEN ValuePrompts(Parsed(files[i])[1]) ELSE {}
             keys == {p[1] : p \in new}
         IN  ExtractCustomPrompts(files, i + 1,
                 {p \in prompts : p[1] \notin keys} \cup new)

\* AgentContextProvider::load_config_file
LoadConfigFile(file) ==
    [path |-> file.path, lines |-> file.lines,
     format |-> DetectConfigFormat(file.ext, Join(file.lines, 1)),
     json |-> file.json, yaml |-> file.yaml]

\* find_config_files on the files it discovers, in path order: the files
\* that cannot be read are dropped
RECURSIVE FindConfigFiles(_, _)
FindConfigFiles(found, i) ==
    IF i > Len(found) THEN <<>>
    ELSE (IF found[i].readable THEN <<LoadConfigFile(found[i])>> ELSE <<>>)
           \o FindConfigFiles(found, i + 1)

\* AgentContextProvider::gather
AgentContext(found, cwdOk) ==
    IF ~cwdOk THEN [status |-> "err"]
    ELSE LET config_files == FindConfigFiles(found, 1)
         IN  [status |-> "ok",
              config_files |-> config_files,
              rules |-> ExtractRules(config_files, 1),
              custom_prompts |-> ExtractCustomPrompts(config_files, 1, {})]

\* the lines of an extensionless configuration file (.cursorrules): blank,
\* blanks only, comments, rules, and a rule with a colon
RuleLines ==
    { <<>>, <<" ">>, <<"#", "a">>, <<" ", "#", " ">>,
      <<"a">>, <<" ", "b", " ">>, <<"a", ":", "b">> }

TextFiles == UNION {[1..n -> RuleLines] : n \in 0..MaxLines}

\* what serde_yaml returns for such a file when it is taken for YAML
YamlOutcomes == {None, Some(Str(<<"a">>))}

\* ---- load_config_file and extract_rules on one extensionless file
ExtractTextFile(lines, yaml) ==
    /\ result = NoResult
    /\ LET file == LoadConfigFile([path |-> ".cursorrules", ext |-> None,
                                   readable |-> TRUE, lines |-> lines,
                                   json |-> None, yaml |-> yaml])
       IN  result' = [op |-> "rules", status |-> "ok", lines |-> lines,
                      format |-> file.format,
                      rules |-> ExtractRules(<<file>>, 1)]
    /\ UNCHANGED <<hashVars, pending, envVars, clockVars, cache, calls>>

NextRules ==
    /\ result = NoResult
    /\ \E lines \in TextFiles, yaml \in YamlOutcomes : ExtractTextFile(lines, yaml)

SpecRules == Init /\ [][NextRules]_vars

\* the documents the parsers return in the model
DocRules ==
    Obj([rules |-> Arr(<<Str(<<"r", "1">>),
                         Obj([instructions |-> Str(<<"r", "2">>)]), Null>>),
         system_prompt |-> Str(<<"p", "1">>),
         name |-> Str(<<"n">>)])

DocPrompts ==
    Obj([prompts |-> Str(<<"r", "3">>),
         commit_template |-> Str(<<"p", "2">>),
         template |-> Arr(<<Str(<<"x">>)>>)])

\* the configuration files of the model, in path order: one that cannot be
\* read, one per format that does not parse, and one per format that does
AllFiles ==
    << [path |-> ".aiconfig", ext |-> None, readable |-> FALSE,
        lines |-> <<>>, json |-> None, yaml |-> None],
       [path |-> ".cursor/agent.json", ext |-> Some("json"), readable |-> TRUE,
        lines |-> <<>>, json |-> None, yaml |-> None],
       [path |-> ".cursor/agent.yaml", ext |-> Some("yaml"), readable |-> TRUE,
        lines |-> <<>>, json |-> None, yaml |-> Some(DocPrompts)],
       [path |-> ".cursor/agent.yml", ext |-> Some("yml"), readable |-> TRUE,
        lines |-> <<>>, json |-> None, yaml |-> None],
       [path |-> ".cursor/config.json", ext |-> Some("json"), readable |-> TRUE,
        lines |-> <<>>, json |-> Some(DocRules), yaml |-> None],
       [path |-> ".cursor/rules.toml", ext |-> Some("toml"), readable |-> TRUE,
        lines |-> << <<"r", "u", "l", "e", " ", "=", " ", "\"", "t", "\"">> >>,
        json |-> None, yaml |-> None],
       [path |-> ".cursorrules", ext |-> None, readable |-> TRUE,
        lines |-> << <<"#", "a">>, <<"a">> >>, json |-> None, yaml |-> None] >>

\* the files of AllFiles at the positions in S, in path order
RECURSIVE FoundAt(_, _)
FoundAt(S, i) ==
    IF i > Len(AllFiles) THEN <<>>
    ELSE (IF i \in S THEN <<AllFiles[i]>> ELSE <<>>) \o FoundAt(S, i + 1)

\* ---- AgentContextProvider::gather in a tree that holds the files at S
AgentGather(S, cwdOk) ==
    /\ result = NoResult
    /\ result' = [op |-> "agent", status |-> AgentContext(FoundAt(S, 1), cwdOk).status,
                  found |-> FoundAt(S, 1), cwdOk |-> cwdOk,
                  out |-> AgentContext(FoundAt(S, 1), cwdOk)]
    /\ UNCHANGED <<hashVars, pending, envVars, clockVars, cache, calls>>

NextAgent ==
    /\ result = NoResult
    /\ \E S \in SUBSET (1..Len(AllFiles)), cwdOk \in BOOLEAN : AgentGather(S, cwdOk)

SpecAgent == Init /\ [][NextAgent]_vars

\* --------------------------------------- the Repository provider's walk
\* the size limit of get_dependency_files, in bytes
DependencyCap == 50000

\* the configured dependency patterns and the file names of the tree
DependencyPatterns == {"Cargo.toml", "package.json"}
TreeNames == {"Cargo.toml", "package.json", "main.rs"}
TreeSizes == {DependencyCap - 1, DependencyCap, DependencyCap + 1, 60000}

\* a file of the tree: its name, the number of its bytes and whether they are
\* UTF-8; the file at position i lies in a directory of its own
TreeFiles == [name : TreeNames, size : TreeSizes, utf8 : BOOLEAN]
Trees == UNION {[1..n -> TreeFiles] : n \in 0..MaxFiles}

\* the text of a file: whose bytes it holds and how many of them
ContentOf(tree, i) == [of |-> i, len |-> tree[i].size]

\* tokio::fs::read_to_string: the whole text, Err for bytes that are not UTF-8
ReadToString(tree, i) ==
    IF tree[i].utf8 THEN Some(ContentOf(tree, i)) ELSE None

MatchesPattern(file) == file.name \in DependencyPatterns

GetDependencyFiles_Truncate(tree) ==
    LET kept == {i \in DOMAIN tree :
                    MatchesPattern(tree[i]) /\ ReadToString(tree, i) # None}
    IN  [i \in kept |-> [of |-> i,
                     len |-> IF tree[i].size < DependencyCap THEN tree[i].size
                             ELSE DependencyCap]]

\* RepositoryContextProvider::get_dependency_files: path -> content
GetDependencyFiles(tree) ==
    LET kept == {i \in DOMAIN tree :
                    /\ MatchesPattern(tree[i])
                    /\ ReadToString(tree, i) # None
                    /\ ReadToString(tree, i)[1].len <= DependencyCap}
    IN  [i \in kept |-> ReadToString(tree, i)[1]]

\* RepositoryContextProvider::get_repository_stats from position i on; the
\* u32 and u64 counters stay far below their widths for the trees walked here
RECURSIVE GetRepositoryStats(_, _, _)
GetRepositoryStats(tree, i, acc) ==
    IF i > Len(tree) THEN acc
    ELSE GetRepositoryStats(tree, i + 1,
             [total_files |-> acc.total_files + 1,
              total_size  |-> acc.total_size + tree[i].size])

\* ---- RepositoryContextProvider::gather over the working tree `tree`
RepositoryGather(tree) ==
    /\ result = NoResult
    /\ LET stats == GetRepositoryStats(tree, 1, [total_files |-> 0, total_size |-> 0])
       IN  result' = [op |-> "repository", status |-> "ok", tree |-> tree,
                      dependency_files |-> GetDependencyFiles(tree),
                      total_files |-> stats.total_files,
                      total_size |-> stats.total_size]
    /\ UNCHANGED <<hashVars, pending, envVars, clockVars, cache, calls>>

NextRepository ==
    /\ result = NoResult
    /\ \E tree \in Trees : RepositoryGather(tree)

SpecRepository == Init /\ [][NextRepository]_vars

\* ------------------------------------------------- the file-hash tracker
\* FileHashTracker::load_hashes: None for Err
LoadHashes(file) == IF file = Corrupt THEN None ELSE Some(file)

\* FileHashTracker::calculate_file_hash of an existing file
CalculateFileHash(d, p) == Md5(d[p])

\* HashMap::insert
Insert(map, p, h) ==
    [q \in DOMAIN map \cup {p} |-> IF q = p THEN h ELSE map[q]]

\* the loop of files_changed over file_paths from position i on
RECURSIVE FilesChangedLoop(_, _, _, _)
FilesChangedLoop(file_paths, i, map, d) ==
    IF i > Len(file_paths) THEN FALSE
    ELSE LET p == file_paths[i]
         IN  IF d[p] = 0
             THEN (IF p \in DOMAIN map THEN TRUE
                   ELSE FilesChangedLoop(file_paths, i + 1, map, d))
             ELSE IF p \in DOMAIN map
                  THEN (IF CalculateFileHash(d, p) # map[p] THEN TRUE
                        ELSE FilesChangedLoop(file_paths, i + 1, map, d))
                  ELSE TRUE

\* the loop of update_file_hashes over file_paths from position i on
RECURSIVE UpdateLoop(_, _, _, _)
UpdateLoop(file_paths, i, map, d) ==
    IF i > Len(file_paths) THEN map
    ELSE LET p == file_paths[i]
         IN  UpdateLoop(file_paths, i + 1,
                        IF d[p] # 0 THEN Insert(map, p, CalculateFileHash(d, p))
                        ELSE map,
                        d)

\* the map of cleanup_missing_files after its two loops
Cleaned(map, d) ==
    [p \in {q \in DOMAIN map : d[q] # 0} |-> map[p]]

\* the path lists of the callers, and the maps a hash file can hold
PathLists == {<<"x">>, <<"y">>, <<"x", "y">>, <<"y", "x">>}
HashMaps  ==
    UNION {[S -> {Md5(c) : c \in 1..MaxContent}] : S \in SUBSET HashPaths}

\* a tracker meets any earlier history of files and hash updates
InitHash ==
    /\ vcs = TRUE
    /\ head = 0
    /\ committed = [f \in FileSet |-> 0]
    /\ work = [f \in FileSet |-> 0]
    /\ now = 0
    /\ ticks = 0
    /\ cache = [ct \in ContextType |-> NoFile]
    /\ result = NoResult
    /\ calls = 0
    /\ disk \in [HashPaths -> 0..MaxContent]
    /\ hash_file \in {Corrupt}
                     \cup {[hashes |-> m, last_updated |-> 0] : m \in HashMaps}
    /\ pending = None

\* ---- environment: the user creates path p or gives it another content
WriteFile(p, c) ==
    /\ calls < MaxCalls
    /\ disk[p] # c
    /\ disk' = [disk EXCEPT ![p] = c]
    /\ UNCHANGED <<envVars, clockVars, cache, result, calls, hash_file, pending>>

\* ---- environment: the user deletes path p
RemoveFile(p) ==
    /\ calls < MaxCalls
    /\ disk[p] # 0
    /\ disk' = [disk EXCEPT ![p] = 0]
    /\ UNCHANGED <<envVars, clockVars, cache, result, calls, hash_file, pending>>

\* ---- FileHashTracker::files_changed
FilesChanged(file_paths) ==
    /\ calls < MaxCalls
    /\ LET loaded == LoadHashes(hash_file)
       IN  result' =
             IF loaded = None
             THEN [op |-> "files_changed", status |-> "err",
                   paths |-> file_paths, changed |-> FALSE]
             ELSE [op |-> "files_changed", status |-> "ok",
                   paths |-> file_paths,
                   changed |-> FilesChangedLoop(file_paths, 1,
                                                loaded[1].hashes, disk)]
    /\ calls' = calls + 1
    /\ UNCHANGED <<envVars, clockVars, cache, hashVars, pending>>

\* ---- FileHashTracker::update_file_hashes; the result keeps the contents read
UpdateFileHashes(file_paths) ==
    /\ calls < MaxCalls
    /\ LET loaded == LoadHashes(hash_file)
       IN  IF loaded = None
           THEN /\ result' = [op |-> "update_file_hashes", status |-> "err",
                              paths |-> file_paths, read |-> disk]
                /\ UNCHANGED hash_file
           ELSE /\ hash_file' =
                      [hashes |-> UpdateLoop(file_paths, 1, loaded[1].hashes, disk),
                       last_updated |-> now]
                /\ result' = [op |-> "update_file_hashes", status |-> "ok",
                              paths |-> file_paths, read |-> disk]
    /\ calls' = calls + 1
    /\ UNCHANGED <<envVars, clockVars, cache, disk, pending>>

\* ---- FileHashTracker::cleanup_missing_files
CleanupMissingFiles ==
    /\ calls < MaxCalls
    /\ LET loaded == LoadHashes(hash_file)
       IN  IF loaded = None
           THEN /\ result' = [op |-> "cleanup_missing_files", status |-> "err"]
                /\ UNCHANGED hash_file
           ELSE LET map == Cleaned(loaded[1].hashes, disk)
                IN  /\ hash_file' =
                          IF DOMAIN map # {}
                          THEN [hashes |-> map, last_updated |-> now]
                          ELSE hash_file
                    /\ result' = [op |-> "cleanup_missing_files", status |-> "ok"]
    /\ calls' = calls + 1
    /\ UNCHANGED <<envVars, clockVars, cache, disk, pending>>

NextHash ==
    \/ \E p \in HashPaths, c \in 1..MaxContent : WriteFile(p, c)
    \/ \E p \in HashPaths : RemoveFile(p)
    \/ \E file_paths \in PathLists : FilesChanged(file_paths)
    \/ \E file_paths \in PathLists : UpdateFileHashes(file_paths)
    \/ CleanupMissingFiles

SpecHash == InitHash /\ [][NextHash]_vars

\* ------------------------- a fetch seen from the repository's other users
\* get_or_fetch_context and refresh_context run the provider and then store;
\* the repository can change between the two awaits.  `pending` holds the
\* call that has its provider's data and has not stored it yet.
FetchOps == {"get_or_fetch_context", "refresh_context"}

\* ---- the call up to the return of provider.gather() (after a miss, or at once)
BeginFetch(fop, ct) ==
    /\ calls < MaxCalls
    /\ pending = None
    /\ ProviderOk(ct, vcs, head, TRUE)
    /\ LET g == CacheGet(cache[ct], Live, now)
       IN  IF fop = "get_or_fetch_context"
           THEN /\ g.res = "absent"
                /\ cache' = [cache EXCEPT ![ct] = g.post]
           ELSE UNCHANGED cache
    /\ pending' = Some([op |-> fop, type |-> ct,
                        data |-> ProviderData(ct, head, committed, work)])
    /\ UNCHANGED <<hashVars, envVars, clockVars, result, calls>>

\* ---- the rest of the call: ContextCache::store and the return
EndFetch ==
    /\ pending # None
    /\ LET p == pending[1]
           s == CacheStore(p.type, p.data, cache[p.type], Live, now, "none")
       IN  /\ cache' = [cache EXCEPT ![p.type] = s.post]
           /\ result' = [op |-> p.op, status |-> s.status, type |-> p.type,
                         data |-> Some(p.data)]
    /\ pending' = None
    /\ calls' = calls + 1
    /\ UNCHANGED <<hashVars, envVars, clockVars>>

NextRace ==
    \/ \E f \in FileSet : Edit(f)
    \/ Commit
    \/ \E fop \in FetchOps : BeginFetch(fop, "Git")
    \/ EndFetch
    \/ pending = None /\ Get("Git")

SpecRace == Init /\ [][NextRace]_vars

\* ------------------------------------- an entry and the gets that follow
\* the categories stored with a lifetime, and the clock readings at and just
\* after the end of each lifetime
Expiring   == {"Git", "Project", "Agent"}
StaleSteps == {GitTtl, GitTtl + 1, ProjectTtl, ProjectTtl + 1,
               AgentTtl, AgentTtl + 1}

\* a repository with one commit and a clean tree, in which ContextCache::store
\* has just written the entry of one category
InitStale ==
    /\ vcs = TRUE
    /\ head = 1
    /\ committed = [f \in FileSet |-> 1]
    /\ work = [f \in FileSet |-> 1]
    /\ now = 0
    /\ ticks = 0
    /\ \E ct \in Expiring :
          cache = [c \in ContextType |->
                     IF c = ct
                     THEN MakeEntry(ct, ProviderData(ct, head, committed, work),
                                    GetGitHashes(vcs, head, committed, work), now)
                     ELSE NoFile]
    /\ result = NoResult
    /\ calls = 0
    /\ disk = [p \in HashPaths |-> 0]
    /\ hash_file = NoHashes
    /\ pending = None

NextStale ==
    \/ \E f \in FileSet : Edit(f)
    \/ \E d \in StaleSteps : Tick(d)
    \/ \E ct \in Expiring : cache[ct] # NoFile /\ Get(ct)

SpecStale == InitStale /\ [][NextStale]_vars

\* ------------------------------------------- the cache files by their names
\* format!("{:?}", context_type): the variant's name
DebugName(ct) ==
    CASE ct = "Git"         -> <<"G", "i", "t">>
      [] ct = "Project"     -> <<"P", "r", "o", "j", "e", "c", "t">>
      [] ct = "Agent"       -> <<"A", "g", "e", "n", "t">>
      [] ct = "Interaction" -> <<"I", "n", "t", "e", "r", "a", "c", "t", "i", "o", "n">>

\* str::to_lowercase on the characters that occur in the names
ToLowercase(s) ==
    [i \in 1..Len(s) |->
        CASE s[i] = "G" -> "g" [] s[i] = "P" -> "p"
          [] s[i] = "A" -> "a" [] s[i] = "I" -> "i"
          [] OTHER -> s[i]]

CacheFilePath_OneName(ct) ==
    ToLowercase(<<"C", "a", "c", "h", "e">> \o <<".", "j", "s", "o", "n">>)

\* ContextCache::cache_file_path, below the cache directory
CacheFilePath(ct) ==
    ToLowercase(DebugName(ct) \o <<".", "j", "s", "o", "n">>)

CachePaths == {CacheFilePath(ct) : ct \in ContextType}

\* the cache directory of a new ContextCache, by file name
InitFiles ==
    /\ vcs \in BOOLEAN
    /\ head = 0
    /\ committed = [f \in FileSet |-> 0]
    /\ work = [f \in FileSet |-> 0]
    /\ now = 0
    /\ ticks = 0
    /\ cache = [path \in CachePaths |-> NoFile]
    /\ result = NoResult
    /\ calls = 0
    /\ disk = [p \in HashPaths |-> 0]
    /\ hash_file = NoHashes
    /\ pending = None

\* ---- ContextCache::get
GetFile(ct) ==
    /\ calls < MaxCalls
    /\ LET g == CacheGet(cache[CacheFilePath(ct)], Live, now)
       IN  /\ cache' = [cache EXCEPT ![CacheFilePath(ct)] = g.post]
           /\ result' = [op |-> "get", status |-> IF g.res = "err" THEN "err" ELSE "ok",
                         type |-> ct, res |-> g.res, data |-> g.data]
    /\ calls' = calls + 1
    /\ UNCHANGED <<hashVars, pending, envVars, clockVars>>

\* ---- ContextCache::store, with the data of the type
StoreFile(ct) ==
    /\ calls < MaxCalls
    /\ LET s == CacheStore(ct, ProviderData(ct, head, committed, work),
                           cache[CacheFilePath(ct)], Live, now, "none")
       IN  /\ cache' = [cache EXCEPT ![CacheFilePath(ct)] = s.post]
           /\ result' = [op |-> "store", status |-> s.status, type |-> ct]
    /\ calls' = calls + 1
    /\ UNCHANGED <<hashVars, pending, envVars, clockVars>>

\* ---- ContextCache::clear_type
ClearType(ct) ==
    /\ calls < MaxCalls
    /\ cache' = [cache EXCEPT ![CacheFilePath(ct)] = NoFile]
    /\ result' = [op |-> "clear_type", status |-> "ok", type |-> ct]
    /\ calls' = calls + 1
    /\ UNCHANGED <<hashVars, pending, envVars, clockVars>>

NextFiles ==
    \/ \E f \in FileSet : Edit(f)
    \/ \E d \in TimeSteps : Tick(d)
    \/ \E ct \in ContextType : GetFile(ct)
    \/ \E ct \in ContextType : StoreFile(ct)
    \/ \E ct \in ContextType : ClearType(ct)

SpecFiles == InitFiles /\ [][NextFiles]_vars

\* ------------------------------------------ the Agent provider's sniffing
\* the characters the detection looks for, a letter, and the contents made
\* of them; a content is also taken padded with letters after its first
\* character to 100 and to 101 characters (the length the detection tests)
SniffChars == {"{", "}", ":", "\n", "[", "]", "=", "a"}
Cores      == UNION {[1..n -> SniffChars] : n \in 0..MaxChars}
            \cup { <<"{", "[", "=", "]", "}">>, <<"a", ":", "\n", "[", "=", "]">> }
PadLengths == {0, 100, 101}

Pad(core, n) ==
    IF Len(core) = 0 \/ n <= Len(core) THEN core
    ELSE <<core[1]>> \o [i \in 1..(n - Len(core)) |-> "a"] \o Tail(core)

\* extensions as path.extension() gives them, lowercased
KnownExts == {Some("json"), Some("yaml"), Some("yml"), Some("toml")}
OtherExts == {None, Some("txt")}
SniffInputs ==
    (KnownExts \X {<<>>, <<"a">>, <<"{", "}">>, <<"a", ":", "\n", "b">>,
                   <<"[", "a", "]", "=">>})
    \cup (OtherExts \X {Pad(core, n) : core \in Cores, n \in PadLengths})

\* ---- detect_config_format on a path with extension ext and this content
DetectFormat(ext, content) ==
    /\ result = NoResult
    /\ result' = [op |-> "format", status |-> "ok", ext |-> ext,
                  content |-> content,
                  format |-> DetectConfigFormat(ext, content)]
    /\ UNCHANGED <<hashVars, pending, envVars, clockVars, cache, calls>>

NextFormat ==
    /\ result = NoResult
    /\ \E in \in SniffInputs : DetectFormat(in[1], in[2])

SpecFormat == Init /\ [][NextFormat]_vars

\* ----------------------------------------------------------------- claims
\* the step is a call of the API (the environment steps leave calls alone)
IsCall == calls' = calls + 1

\* the working tree that the provider saw when the data of entry e was gathered
StoredWork(e) == e.data.view[Len(e.data.view)]

\* C1 (as claimed): a get that finds a cache file it cannot parse as a cache
\* entry reports absent, never an error, and deletes the file.
C1_SelfHealingGet ==
    [][ (IsCall /\ result'.op = "get"
           /\ cache[result'.type].kind = "partial")
          => (result'.res = "absent" /\ cache'[result'.type] = NoFile)
      ]_vars

\* C2: a get returns a snapshot only when the entry's commit hash and
\* working-tree hash both equal the live pair of that get and expires_at has
\* not passed, and it is then the entry's snapshot; a parsable entry that
\* fails one of the three checks is deleted and reported absent.
C2_GetReturnsOnlyValid ==
    [][ (IsCall /\ result'.op = "get") =>
          LET e  == cache[result'.type]
              ok == /\ e.git_commit_hash = Live.commit
                    /\ e.working_tree_hash = Live.tree
                    /\ (e.expires_at # None => now <= e.expires_at[1])
          IN  /\ result'.res = "hit" =>
                    /\ e.kind = "entry" /\ ok
                    /\ result'.data = Some(e.data)
                    /\ cache'[result'.type] = e
              /\ (e.kind = "entry" /\ ~ok) =>
                    result'.res = "absent" /\ cache'[result'.type] = NoFile
      ]_vars

C2_Witness ==
    /\ result.op = "get" /\ result.found = "tree_changed"
    /\ result.res = "absent"
    /\ cache[result.type] = NoFile

\* C3: when a gather follows a successful gather with HEAD and the status
\* output as they were and the entry of a shared cacheable type unexpired,
\* the second call does not invoke that type's provider, the provider ran at
\* most once over both calls (exactly once if the first call missed), and
\* both bundles hold the same snapshot.
C3_Idempotence ==
    [][ (IsCall /\ result'.op = "gather") =>
          \A ct \in RepeatSet(result, result'.types) :
             /\ cache[ct].kind = "entry"
             /\ result'.invoked[ct] = 0
             /\ result.invoked[ct] + result'.invoked[ct]
                    = (IF <<"miss", ct>> \in result.ops THEN 1 ELSE 0)
             /\ result'.status = "ok" =>
                    result'.bundle[1].contexts[ct] = result.bundle[1].contexts[ct]
      ]_vars

C3_Witness ==
    /\ result.op = "gather" /\ result.status = "ok"
    /\ "Git" \in result.repeat
    /\ <<"hit", "Git">> \in result.ops
    /\ result.invoked["Git"] = 0

\* C4: an entry stored at one HEAD is rejected and deleted by the next get
\* once a commit has moved HEAD; a gather that reaches the type then invokes
\* the provider again and, when it succeeds, leaves an entry keyed to the
\* new HEAD.
C4_InvalidationOnCommit ==
    [][ IsCall =>
          /\ (result'.op = "get" /\ cache[result'.type].kind = "entry"
                /\ cache[result'.type].git_commit_hash # Live.commit)
               => (result'.res = "absent" /\ cache'[result'.type] = NoFile)
          /\ result'.op = "gather" =>
               \A ct \in TypesOf(result'.types) \ {"Interaction"} :
                  (/\ cache[ct].kind = "entry"
                   /\ cache[ct].git_commit_hash # Live.commit
                   /\ <<"get", ct>> \in result'.ops)
                    => /\ result'.invoked[ct] = 1
                       /\ cache'[ct] # cache[ct]
                       /\ result'.status = "ok" =>
                            /\ cache'[ct].kind = "entry"
                            /\ cache'[ct].git_commit_hash = Live.commit
      ]_vars

C4_Witness ==
    /\ result.op = "gather" /\ result.status = "ok"
    /\ <<"commit_moved", "Git">> \in result.ops
    /\ result.invoked["Git"] = 1
    /\ cache["Git"].kind = "entry"
    /\ cache["Git"].git_commit_hash = Some(head)
    /\ head = 2

\* C5 (as claimed): once a tracked file's content differs from what it was
\* when an entry was stored, with no commit in between, the next get for the
\* entry reports absent.
C5_InvalidationOnEdit ==
    [][ (/\ IsCall /\ result'.op = "get"
         /\ cache[result'.type].kind = "entry"
         /\ cache[result'.type].data.variant # "Interaction"
         /\ cache[result'.type].git_commit_hash = Live.commit
         /\ \E f \in FileSet :
               committed[f] > 0 /\ StoredWork(cache[result'.type])[f] # work[f])
        => result'.res = "absent"
      ]_vars

\* C6 (as claimed): whatever gather, refresh_context and clear_cache calls are
\* made, the cache directory holds no file for the Interaction type.
C6_InteractionNeverStored == cache["Interaction"] = NoFile

\* C7: a gather that requests Interaction neither reads nor writes the cache
\* for that type, and the bundle it returns holds the snapshot made by the
\* Interaction provider in that call: its command is the command passed to
\* gather ("unknown" when none was passed) and its timestamp the time of the call.
C7_InteractionFresh ==
    [][ (IsCall /\ result'.op = "gather"
           /\ "Interaction" \in TypesOf(result'.types)) =>
          /\ cache'["Interaction"] = cache["Interaction"]
          /\ <<"get", "Interaction">> \notin result'.ops
          /\ <<"store", "Interaction">> \notin result'.ops
          /\ result'.status = "ok" =>
               LET snap == result'.bundle[1].contexts["Interaction"]
               IN  /\ snap # None
                   /\ result'.invoked["Interaction"] >= 1
                   /\ snap[1].variant = "Interaction"
                   /\ snap[1].timestamp = now
                   /\ snap[1].command = (IF result'.command # None
                                         THEN result'.command[1] ELSE "unknown")
      ]_vars

C7_Witness ==
    /\ result.op = "gather" /\ result.status = "ok"
    /\ result.command = Some("pr")
    /\ result.bundle[1].contexts["Interaction"] # None
    /\ result.bundle[1].contexts["Interaction"][1].command = "pr"
    /\ result.bundle[1].contexts["Interaction"][1].timestamp > 0
    /\ cache["Interaction"] # NoFile

\* C8 (as claimed): when the store that follows a miss and a successful
\* provider call fails, gather still succeeds and the bundle holds the
\* freshly computed snapshot.
C8_StoreFailureNonFatal ==
    result.op = "gather" =>
        \A ct \in ContextType :
           <<"store_failed", ct>> \in result.ops =>
              /\ result.status = "ok"
              /\ result.bundle[1].contexts[ct] # None

\* C9 (as claimed): a gather that finds the partial, unparsable file left by
\* an interrupted store succeeds: the file counts as a miss, the provider is
\* invoked and a valid entry is written.
C9_PartialFileTolerated ==
    result.op = "gather" =>
        \A ct \in ContextType :
           <<"partial", ct>> \in result.ops =>
              /\ result.status = "ok"
              /\ result.invoked[ct] = 1
              /\ cache[ct].kind = "entry"

\* C10 (as claimed): a failing provider of an optional type (Project, Agent)
\* does not abort gather, the bundle holds a snapshot for that type; a failing
\* provider of the required type (Git) makes gather return an error.
C10_OptionalProviderFailure ==
    result.op = "gather" =>
        /\ \A ct \in {"Project", "Agent"} :
              <<"provider_failed", ct>> \in result.ops =>
                 /\ result.status = "ok"
                 /\ result.bundle[1].contexts[ct] # None
        /\ <<"provider_failed", "Git">> \in result.ops => result.status = "err"

\* history: the events of a call that make get_or_fetch_context return an error
Failures(ops) ==
    {e \in ops : e[1] \in {"provider_failed", "store_failed",
                           "store_interrupted", "partial"}}

\* C11: without a repository (git rev-parse and git status both fail) a
\* gather in which no provider and no cache access fails returns a bundle,
\* and every bundle returned has git_hash and working_tree_hash unset.
C11_NoVcsStillGathers ==
    (result.op = "gather" /\ ~vcs) =>
        /\ Failures(result.ops) = {} => result.status = "ok"
        /\ result.status = "ok" =>
              /\ result.bundle[1].git_hash = None
              /\ result.bundle[1].working_tree_hash = None

C11_Witness ==
    /\ ~vcs
    /\ result.op = "gather" /\ result.status = "ok"
    /\ result.bundle[1].contexts["Project"] # None
    /\ result.bundle[1].contexts["Interaction"] # None
    /\ result.bundle[1].git_hash = None
    /\ result.bundle[1].working_tree_hash = None

\* C13: every entry that a call writes for Git, Project or Agent has
\* expires_at = the time of the store + 5 minutes, + 1 hour and + 24 hours
\* respectively (in seconds).
C13_ExpiryPerCategory ==
    [][ IsCall =>
          \A ct \in {"Git", "Project", "Agent"} :
             (cache'[ct] # cache[ct] /\ cache'[ct].kind = "entry") =>
                /\ cache'[ct].created_at = now
                /\ cache'[ct].expires_at =
                      Some(now + (CASE ct = "Git"     -> 5 * 60
                                    [] ct = "Project" -> 60 * 60
                                    [] ct = "Agent"   -> 24 * 60 * 60))
      ]_vars

C13_Witness ==
    /\ cache["Git"].kind = "entry" /\ cache["Agent"].kind = "entry"
    /\ cache["Git"].created_at > 0
    /\ cache["Git"].expires_at = Some(cache["Git"].created_at + 300)
    /\ cache["Agent"].expires_at = Some(cache["Agent"].created_at + 86400)

\* C14: the bundle of a successful gather holds a snapshot for a type exactly
\* when the request list names the type (once, also when the list names it
\* twice), and the snapshot under a type is the variant of that type, whether
\* the cache or the provider supplied it.
C14_BundleMatchesRequest ==
    (result.op = "gather" /\ result.status = "ok") =>
        \A ct \in ContextType :
           LET snap == result.bundle[1].contexts[ct]
           IN  /\ snap # None <=> ct \in TypesOf(result.types)
               /\ snap # None => (Len(snap) = 1 /\ snap[1].variant = ct)

C14_Witness ==
    /\ result.op = "gather" /\ result.status = "ok"
    /\ result.types = <<"Project", "Interaction", "Project">>
    /\ <<"miss", "Project">> \in result.ops
    /\ <<"hit", "Project">> \in result.ops
    /\ result.bundle[1].contexts["Project"][1].variant = "Project"
    /\ result.bundle[1].contexts["Git"] = None

\* C17 (as claimed): in a repository without a commit a call that invokes
\* the Git provider (from gather or refresh_context) does not fail.
C17_ZeroCommitsGatherSucceeds ==
    [][ (/\ IsCall /\ result'.op \in {"gather", "refresh"}
         /\ vcs /\ head = 0
         /\ <<"provide", "Git">> \in result'.ops)
        => <<"provider_failed", "Git">> \notin result'.ops
      ]_vars

\* C12: a get that finds an entry with the live hashes and expires_at = T
\* returns the entry's snapshot when the clock reads T - 1 s, and reports
\* absent and deletes the entry when the clock reads T + 1 s.
C12_ExpiryBoundary ==
    [][ (IsCall /\ result'.op = "get") =>
          LET e == cache[result'.type]
          IN  (/\ e.kind = "entry" /\ e.expires_at # None
               /\ e.git_commit_hash = Live.commit
               /\ e.working_tree_hash = Live.tree) =>
                 /\ now = e.expires_at[1] - 1 =>
                       /\ result'.res = "hit"
                       /\ result'.data = Some(e.data)
                       /\ cache'[result'.type] = e
                 /\ now = e.expires_at[1] + 1 =>
                       /\ result'.res = "absent"
                       /\ cache'[result'.type] = NoFile
      ]_vars

C12_Witness ==
    /\ result.op = "get" /\ result.type = "Agent" /\ result.res = "hit"
    /\ cache["Agent"].kind = "entry"
    /\ cache["Agent"].expires_at = Some(now + 1)

\* C15 (as claimed): has_conflicts is true exactly when some status record
\* has 'U' in either column, 'A' in both or 'D' in both.
C15_ConflictFlag ==
    result.op = "status" =>
        LET Conflicted(r) == \/ r.x = "U" \/ r.y = "U"
                             \/ (r.x = "A" /\ r.y = "A")
                             \/ (r.x = "D" /\ r.y = "D")
            l == result.listing
        IN  result.out.has_conflicts <=> (\E i \in 1..Len(l) : Conflicted(l[i]))

\* C16 (as claimed): every status record adds one staged entry iff its index
\* code is neither blank nor '?', one untracked entry iff its worktree code
\* is '?', one unstaged entry iff its worktree code is neither blank nor
\* '?'; is_clean holds exactly when the three lists are empty.
C16_StatusPartition ==
    result.op = "status" =>
        LET l   == result.listing
            out == result.out
        IN  /\ Len(out.staged_files) =
                  Cardinality({i \in 1..Len(l) : l[i].x \notin {" ", "?"}})
            /\ Len(out.untracked_files) =
                  Cardinality({i \in 1..Len(l) : l[i].y = "?"})
            /\ Len(out.unstaged_files) =
                  Cardinality({i \in 1..Len(l) : l[i].y \notin {" ", "?"}})
            /\ out.is_clean <=> (/\ out.staged_files = <<>>
                                 /\ out.unstaged_files = <<>>
                                 /\ out.untracked_files = <<>>)

\* C18 (as claimed): get_diffs never fails; the branch diff is taken against
\* the upstream when one is configured, otherwise against main if that
\* branch exists, otherwise against master; the field is unset when there is
\* no base or the diff command for the base fails.
C18_DiffBaseOrder ==
    result.op = "diffs" =>
        LET env  == result.env
            base == IF env.upstream # None THEN env.upstream
                    ELSE IF "main" \in env.branches THEN Some("main")
                    ELSE IF "master" \in env.branches THEN Some("master")
                    ELSE None
        IN  /\ result.status = "ok"
            /\ result.out.branch_diff =
                  (IF base = None \/ Range(base[1]) \in env.failing THEN None
                   ELSE Some(<<"diff", Range(base[1])>>))

\* C18 (amended): get_diffs never fails, and a failing staged or unstaged
\* diff leaves only its own field unset; the branch diff is taken against the
\* upstream when one is configured (unset when that diff fails), otherwise
\* against main if that branch exists and its diff succeeds, otherwise
\* against master if that branch exists and its diff succeeds, otherwise
\* the field is unset.
C18_DiffsBestEffort ==
    result.op = "diffs" =>
        LET env   == result.env
            Ok(a) == a \notin env.failing
            Of(a) == Some(<<"diff", a>>)
        IN  /\ result.status = "ok"
            /\ result.out.staged = (IF Ok("--cached") THEN Of("--cached") ELSE None)
            /\ result.out.unstaged = (IF Ok("") THEN Of("") ELSE None)
            /\ result.out.branch_diff =
                  (IF env.upstream # None
                   THEN (IF Ok("origin/dev..HEAD") THEN Of("origin/dev..HEAD") ELSE None)
                   ELSE IF "main" \in env.branches /\ Ok("main..HEAD")
                        THEN Of("main..HEAD")
                   ELSE IF "master" \in env.branches /\ Ok("master..HEAD")
                        THEN Of("master..HEAD")
                   ELSE None)

C18_Witness ==
    /\ result.op = "diffs" /\ result.status = "ok"
    /\ result.env.upstream = None
    /\ result.env.branches = {"main", "master"}
    /\ result.env.failing = {"--cached", "main..HEAD"}
    /\ result.out.staged = None
    /\ result.out.unstaged # None
    /\ result.out.branch_diff = Some(<<"diff", "master..HEAD">>)

BadFile(f) ==
    \/ ~f.readable
    \/ /\ LoadConfigFile(f).format \in {"Json", "Yaml"}
       /\ Parsed(LoadConfigFile(f)) = None

\* the rules of the files of `found` from position i on, each file scanned
\* on its own and the bad files left out
RECURSIVE RulesOfGood(_, _)
RulesOfGood(found, i) ==
    IF i > Len(found) THEN <<>>
    ELSE (IF BadFile(found[i]) THEN <<>>
          ELSE AgentContext(<<found[i]>>, TRUE).rules)
           \o RulesOfGood(found, i + 1)

\* C20: the Agent provider's gather does not fail over a file that cannot be
\* read or parsed; its rules and prompts are those of the other files, each
\* as if scanned on its own, and the bad files add nothing.
C20_ScanBestEffort ==
    (result.op = "agent" /\ result.cwdOk) =>
        LET found == result.found
            good  == {i \in 1..Len(found) : ~BadFile(found[i])}
        IN  /\ result.status = "ok"
            /\ result.out.rules = RulesOfGood(found, 1)
            /\ result.out.custom_prompts =
                  UNION {AgentContext(<<found[i]>>, TRUE).custom_prompts : i \in good}
            /\ \A i \in 1..Len(found) :
                  BadFile(found[i]) =>
                     /\ AgentContext(<<found[i]>>, TRUE).rules = <<>>
                     /\ AgentContext(<<found[i]>>, TRUE).custom_prompts = {}

C20_Witness ==
    /\ result.op = "agent" /\ result.status = "ok"
    /\ Len(result.found) = Len(AllFiles)
    /\ Len(result.out.config_files) = Len(AllFiles) - 1
    /\ result.out.rules =
          << <<"r", "3">>, <<"r", "1">>, <<"r", "2">>, <<"t">>, <<"a">> >>
    /\ result.out.custom_prompts =
          { <<"prompts", <<"r", "3">>>>, <<"commit_template", <<"p", "2">>>>,
            <<"system_prompt", <<"p", "1">>>> }

RECURSIVE SumSizes(_, _)
SumSizes(tree, i) == IF i > Len(tree) THEN 0 ELSE tree[i].size + SumSizes(tree, i + 1)

\* C21: every entry of dependency_files holds the whole content of its file,
\* of at most 50,000 bytes; a matching file above that size has no entry, and
\* every file of the tree, that one included, counts in total_files and its
\* bytes count in total_size.
C21_ManifestSizeCap ==
    result.op = "repository" =>
        LET tree == result.tree
            deps == result.dependency_files
        IN  /\ \A i \in DOMAIN deps :
                  /\ i \in DOMAIN tree
                  /\ deps[i] = [of |-> i, len |-> tree[i].size]
                  /\ deps[i].len <= DependencyCap
            /\ \A i \in DOMAIN tree :
                  (MatchesPattern(tree[i]) /\ tree[i].size > DependencyCap)
                      => i \notin DOMAIN deps
            /\ result.total_files = Len(tree)
            /\ result.total_size = SumSizes(tree, 1)

C21_Witness ==
    /\ result.op = "repository"
    /\ \E i \in DOMAIN result.tree :
          /\ MatchesPattern(result.tree[i])
          /\ result.tree[i].utf8
          /\ result.tree[i].size = 60000
          /\ i \notin DOMAIN result.dependency_files
    /\ \E j \in DOMAIN result.dependency_files :
          result.dependency_files[j].len = DependencyCap
    /\ result.total_files = 2
    /\ result.total_size = 60000 + DependencyCap

\* C22: a files_changed(F) that follows a successful update_file_hashes(F)
\* succeeds and reports a change exactly when some file of F no longer has the
\* content (or the absence) it had at that update: false right after the
\* update, true as soon as a file of F differs.
C22_ChangedSinceUpdate ==
    [][(/\ IsCall
        /\ result.op = "update_file_hashes" /\ result.status = "ok"
        /\ result'.op = "files_changed" /\ result'.paths = result.paths)
       => /\ result'.status = "ok"
          /\ result'.changed =
                (\E i \in DOMAIN result.paths :
                    disk[result.paths[i]] # result.read[result.paths[i]])]_vars

\* C30: after a successful cleanup_missing_files the persisted map names no
\* path whose file does not exist.
C30_CleanupLeavesNoMissing ==
    [][(IsCall /\ result'.op = "cleanup_missing_files" /\ result'.status = "ok")
       => \A p \in DOMAIN hash_file'.hashes : disk'[p] # 0]_vars

\* C23 (as claimed): an entry with the live hashes whose expires_at is set is
\* served only while the clock is strictly before expires_at; a get at the
\* instant now = expires_at reports absent.
C23_ValidStrictlyBefore ==
    [][ (IsCall /\ result'.op = "get") =>
          LET e == cache[result'.type]
          IN  (/\ e.kind = "entry" /\ e.expires_at # None
               /\ e.git_commit_hash = Live.commit
               /\ e.working_tree_hash = Live.tree) =>
                 /\ result'.res = "hit" => now < e.expires_at[1]
                 /\ now = e.expires_at[1] => result'.res = "absent"
      ]_vars

\* C23 (amended): an entry with the live hashes whose expires_at is set is
\* served exactly while the clock has not passed expires_at: a get at the
\* instant now = expires_at returns the entry's snapshot and keeps the file,
\* a get at any later time reports absent and deletes it.
C23_ValidUntilExpiry ==
    [][ (IsCall /\ result'.op = "get") =>
          LET e == cache[result'.type]
          IN  (/\ e.kind = "entry" /\ e.expires_at # None
               /\ e.git_commit_hash = Live.commit
               /\ e.working_tree_hash = Live.tree) =>
                 /\ result'.res = "hit" <=> now <= e.expires_at[1]
                 /\ now = e.expires_at[1] =>
                       /\ result'.data = Some(e.data)
                       /\ cache'[result'.type] = e
                 /\ now > e.expires_at[1] =>
                       /\ result'.res = "absent"
                       /\ cache'[result'.type] = NoFile
      ]_vars

C23_Witness ==
    /\ result.op = "get" /\ result.type = "Git" /\ result.res = "hit"
    /\ cache["Git"].kind = "entry"
    /\ cache["Git"].expires_at = Some(now)
    /\ cache["Git"].git_commit_hash = Live.commit
    /\ cache["Git"].working_tree_hash = Live.tree

\* the fingerprint pair of the repository state a Git snapshot was computed from
SourcePair(data) ==
    GetGitHashes(TRUE, data.commit[1], data.view[1], data.view[2])

\* C24: every snapshot that get serves from the cache was computed from a
\* repository state whose fingerprint pair is the pair recorded in the entry,
\* also when the repository changes between the provider's gather and the
\* store of the same call.
C24_ServedSnapshotMatchesPair ==
    [][ (IsCall /\ result'.op = "get" /\ result'.res = "hit") =>
          LET e == cache[result'.type]
          IN  /\ SourcePair(e.data).commit = e.git_commit_hash
              /\ SourcePair(e.data).tree = e.working_tree_hash
      ]_vars

\* C25: a hit leaves the cache file as it is (created_at and expires_at
\* included), and a snapshot is never served later than 5 minutes (Git),
\* 1 hour (Project) or 24 hours (Agent) after the store that created its
\* entry, also when hits came in between.
C25_BoundedStaleness ==
    [][ (IsCall /\ result'.op = "get" /\ result'.res = "hit") =>
          LET ct       == result'.type
              e        == cache[ct]
              lifetime == CASE ct = "Git"     -> 5 * 60
                            [] ct = "Project" -> 60 * 60
                            [] ct = "Agent"   -> 24 * 60 * 60
          IN  /\ cache' = cache
              /\ e.created_at = 0
              /\ now - e.created_at <= lifetime
      ]_vars

\* the second get of an entry, at the last instant of its lifetime, after a hit
C25_Witness ==
    /\ calls = 2
    /\ result.op = "get" /\ result.res = "hit" /\ result.type = "Project"
    /\ now = cache["Project"].created_at + ProjectTtl

\* C26: a gather whose step for one category fails returns the error and no
\* bundle; the categories were processed in list order up to the failing one,
\* no provider (and no cache access) of a later category took place, and the
\* entries the call stored for earlier categories are still in the cache.
C26_FailFastInOrder ==
    (result.op = "gather" /\ result.status = "err") =>
        \E k \in 1..Len(result.types) :
           LET Before == {result.types[i] : i \in 1..(k - 1)}
               failed == result.types[k]
           IN  /\ result.bundle = None
               /\ Failures(result.ops) # {}
               /\ \A e \in Failures(result.ops) : e[2] = failed
               /\ failed \notin Before
               /\ \A e \in result.ops : e[2] \in Before \cup {failed}
               /\ \A ct \in ContextType :
                     result.invoked[ct] > 0 => ct \in Before \cup {failed}
               /\ \A ct \in Before :
                     /\ ct = "Interaction" => result.invoked[ct] = 1
                     /\ ct # "Interaction" => <<"get", ct>> \in result.ops
                     /\ <<"store", ct>> \in result.ops =>
                           cache[ct].kind = "entry"

C26_Witness ==
    /\ result.op = "gather" /\ result.status = "err"
    /\ result.types = <<"Git", "Agent", "Interaction">>
    /\ <<"store", "Git">> \in result.ops
    /\ <<"provider_failed", "Agent">> \in result.ops
    /\ result.invoked["Interaction"] = 0
    /\ cache["Git"].kind = "entry"

\* C27: a get, store or clear_type on category c works on the file
\* '<category lowercased>.json' of c, which no other category shares; the
\* file of every other category, and what a get of it would return, is as
\* before the call.
C27_OnlyOwnFile ==
    [][ (IsCall /\ result'.op \in {"get", "store", "clear_type"}) =>
          LET c == result'.type
          IN  /\ CacheFilePath(c) =
                    (CASE c = "Git"     -> <<"g", "i", "t">>
                       [] c = "Project" -> <<"p", "r", "o", "j", "e", "c", "t">>
                       [] c = "Agent"   -> <<"a", "g", "e", "n", "t">>
                       [] OTHER -> <<"i", "n", "t", "e", "r", "a", "c", "t", "i", "o", "n">>)
                    \o <<".", "j", "s", "o", "n">>
              /\ \A d \in ContextType \ {c} :
                    /\ CacheFilePath(d) # CacheFilePath(c)
                    /\ cache'[CacheFilePath(d)] = cache[CacheFilePath(d)]
                    /\ CacheGet(cache'[CacheFilePath(d)], Live', now')
                          = CacheGet(cache[CacheFilePath(d)], Live, now)
      ]_vars

\* a store of Agent after the store of Git, whose entry is still served
C27_Witness ==
    /\ calls = 2
    /\ result.op = "store" /\ result.type = "Agent"
    /\ cache[CacheFilePath("Agent")].kind = "entry"
    /\ cache[CacheFilePath("Git")].kind = "entry"
    /\ CacheGet(cache[CacheFilePath("Git")], Live, now).res = "hit"

\* C28 (as claimed): for every listing, also with rename or copy records,
\* each staged and each unstaged entry is the path of one record of the
\* listing with that record's index (worktree) code, a code among M, A, D, R,
\* C, U, and each untracked entry is the path of a '??' record.
C28_EntriesFromRecords ==
    result.op = "status" =>
        LET l     == result.listing
            out   == result.out
            Codes == {"M", "A", "D", "R", "C", "U"}
        IN  /\ \A k \in DOMAIN out.staged_files :
                  /\ out.staged_files[k].status \in Codes
                  /\ \E i \in DOMAIN l :
                        /\ l[i].path = out.staged_files[k].path
                        /\ l[i].x = out.staged_files[k].status
            /\ \A k \in DOMAIN out.unstaged_files :
                  /\ out.unstaged_files[k].status \in Codes
                  /\ \E i \in DOMAIN l :
                        /\ l[i].path = out.unstaged_files[k].path
                        /\ l[i].y = out.unstaged_files[k].status
            /\ \A k \in DOMAIN out.untracked_files :
                  \E i \in DOMAIN l :
                     /\ l[i].path = out.untracked_files[k]
                     /\ l[i].x = "?" /\ l[i].y = "?"

\* C29 (as claimed): the extension decides first (json, yaml/yml, toml),
\* whatever the content; otherwise the content, trimmed, is Json only if it
\* starts and ends with a brace, else Yaml only if it holds a colon and spans
\* several lines, else Toml only if it holds both brackets and an equals
\* sign, else Text.
C29_DetectionOrder ==
    result.op = "format" =>
        LET t       == Trim(result.content)
            braces  == t # <<>> /\ t[1] = "{" /\ t[Len(t)] = "}"
            lines   == Contains(t, ":") /\ Contains(t, "\n")
            headers == Contains(t, "[") /\ Contains(t, "]") /\ Contains(t, "=")
        IN  result.format =
              (CASE result.ext = Some("json") -> "Json"
                 [] result.ext \in {Some("yaml"), Some("yml")} -> "Yaml"
                 [] result.ext = Some("toml") -> "Toml"
                 [] OTHER -> IF braces THEN "Json"
                             ELSE IF lines THEN "Yaml"
                             ELSE IF headers THEN "Toml"
                             ELSE "Text")

\* C29 (amended): as claimed, except that a content without a recognised
\* extension and without the two braces is Yaml if it holds a colon and
\* either spans several lines or is longer than 100 characters.
C29_DetectionOrderByLength ==
    result.op = "format" =>
        LET t       == Trim(result.content)
            braces  == t # <<>> /\ t[1] = "{" /\ t[Len(t)] = "}"
            lines   == Contains(t, ":") /\ (Contains(t, "\n") \/ Len(t) >= 101)
            headers == Contains(t, "[") /\ Contains(t, "]") /\ Contains(t, "=")
        IN  result.format =
              (CASE result.ext = Some("json") -> "Json"
                 [] result.ext \in {Some("yaml"), Some("yml")} -> "Yaml"
                 [] result.ext = Some("toml") -> "Toml"
                 [] OTHER -> IF braces THEN "Json"
                             ELSE IF lines THEN "Yaml"
                             ELSE IF headers THEN "Toml"
                             ELSE "Text")

\* a single line of 101 characters with a colon, taken for YAML
C29_Witness ==
    /\ result.op = "format" /\ result.ext = None
    /\ Len(result.content) = 101
    /\ Contains(result.content, ":")
    /\ ~Contains(result.content, "\n")
    /\ result.content[1] # "{"
    /\ result.format = "Yaml"

====
